---- MODULE Spec2Model ----
(***************************************************************************)
(* simple_logger: the SimpleLogger builder, its rule table, the global     *)
(* registration done by init, and the line written by log.                 *)
(*                                                                         *)
(* Strings are sequences of one-character strings.  A LevelFilter is its   *)
(* discriminant 0..5 (Off, Error, Warn, Info, Debug, Trace), a Level is    *)
(* its discriminant 1..5 (Error .. Trace); the derived Ord of both enums   *)
(* is the order of the discriminants.  An Option is a sequence of length   *)
(* 0 (None) or 1 (Some).                                                   *)
(***************************************************************************)
EXTENDS Integers, Sequences, FiniteSets, TLC

(* ---------------------------------------------------------------------- *)
(* Bounds of the model                                                     *)
(* ---------------------------------------------------------------------- *)
MaxRules == 2
MaxInits == 3
MaxCalls == 3
MaxLines == 2

(* ---------------------------------------------------------------------- *)
(* log::LevelFilter and log::Level                                         *)
(* ---------------------------------------------------------------------- *)
Off == 0
Error == 1
Warn == 2
Info == 3
Debug == 4
Trace == 5

LevelFilters == Off..Trace
Levels == Error..Trace

to_level_filter(level) == level

LOG_LEVEL_NAMES ==
  << <<"O","F","F">>, <<"E","R","R","O","R">>, <<"W","A","R","N">>,
     <<"I","N","F","O">>, <<"D","E","B","U","G">>, <<"T","R","A","C","E">> >>

UpperCase == <<"A","B","C","D","E","F","G","I","N","O","R","T","U","W">>
LowerCase == <<"a","b","c","d","e","f","g","i","n","o","r","t","u","w">>

to_ascii_lowercase(c) ==
  IF \E i \in 1..Len(UpperCase) : UpperCase[i] = c
    THEN LowerCase[CHOOSE i \in 1..Len(UpperCase) : UpperCase[i] = c]
    ELSE c

eq_ignore_ascii_case(s, t) ==
  /\ Len(s) = Len(t)
  /\ \A i \in 1..Len(s) : to_ascii_lowercase(s[i]) = to_ascii_lowercase(t[i])

\* variant of from_str that compares the names as written
from_str_case_sensitive(s) ==
  LET hits == {i \in 1..Len(LOG_LEVEL_NAMES) : LOG_LEVEL_NAMES[i] = s}
  IN IF hits = {} THEN <<>> ELSE <<(CHOOSE i \in hits : \A j \in hits : i <= j) - 1>>

\* LevelFilter::from_str: the position of the name in LOG_LEVEL_NAMES,
\* compared without regard to ASCII case; None when no name matches.
from_str(s) ==
  LET hits == {i \in 1..Len(LOG_LEVEL_NAMES) : eq_ignore_ascii_case(LOG_LEVEL_NAMES[i], s)}
  IN IF hits = {} THEN <<>> ELSE <<(CHOOSE i \in hits : \A j \in hits : i <= j) - 1>>

(* ---------------------------------------------------------------------- *)
(* usize arithmetic: a usize is four 16-bit limbs, least significant first *)
(* ---------------------------------------------------------------------- *)
UsizeLimbs == 4
LimbRadix == 65536

to_usize(n) == [i \in 1..UsizeLimbs |-> IF i = 1 THEN n % LimbRadix ELSE 0]

\* usize::wrapping_neg: two's complement negation, !x + 1 modulo 2^64
wrapping_neg(u) ==
  LET inv == [i \in 1..UsizeLimbs |-> LimbRadix - 1 - u[i]]
      carry(i) == \A j \in 1..(i - 1) : inv[j] = LimbRadix - 1
  IN [i \in 1..UsizeLimbs |-> IF carry(i) THEN (inv[i] + 1) % LimbRadix ELSE inv[i]]

usize_lt(a, b) ==
  \E i \in 1..UsizeLimbs :
     /\ a[i] < b[i]
     /\ \A j \in (i + 1)..UsizeLimbs : a[j] = b[j]

usize_le(a, b) == ~usize_lt(b, a)

(* ---------------------------------------------------------------------- *)
(* The rule table                                                          *)
(* ---------------------------------------------------------------------- *)
\* variant of starts_with with its operands exchanged
starts_with_swapped(target, name) ==
  /\ Len(target) <= Len(name)
  /\ SubSeq(name, 1, Len(target)) = target

starts_with(target, name) ==
  /\ Len(name) <= Len(target)
  /\ SubSeq(target, 1, Len(name)) = name

\* the closure |(name, _level)| name.len().wrapping_neg()
sort_key(rule) == wrapping_neg(to_usize(Len(rule.name)))

\* variant of InsertStable that puts x in front of the elements with its key
InsertBeforeEqual(sorted, x) ==
  LET n == Cardinality({j \in 1..Len(sorted) : usize_lt(sort_key(sorted[j]), sort_key(x))})
  IN SubSeq(sorted, 1, n) \o <<x>> \o SubSeq(sorted, n + 1, Len(sorted))

\* one step of a stable sort: x goes behind every element whose key is not
\* greater than its own
InsertStable(sorted, x) ==
  LET n == Cardinality({j \in 1..Len(sorted) : usize_le(sort_key(sorted[j]), sort_key(x))})
  IN SubSeq(sorted, 1, n) \o <<x>> \o SubSeq(sorted, n + 1, Len(sorted))

RECURSIVE sort_by_key(_)
sort_by_key(v) ==
  IF v = <<>> THEN <<>>
  ELSE InsertStable(sort_by_key(SubSeq(v, 1, Len(v) - 1)), v[Len(v)])

\* module_levels.iter().find(|(name, _)| target.starts_with(name))
find(module_levels, target) ==
  LET hits == {i \in 1..Len(module_levels) : starts_with(target, module_levels[i].name)}
  IN IF hits = {} THEN <<>>
     ELSE <<module_levels[CHOOSE i \in hits : \A j \in hits : i <= j]>>

\* variant of enabled with the comparison turned round
enabled_above(self, target, level) ==
  LET found == find(self.module_levels, target)
      limit == IF found = <<>> THEN self.default_level ELSE found[1].level
  IN to_level_filter(level) >= limit

enabled(self, target, level) ==
  LET found == find(self.module_levels, target)
      limit == IF found = <<>> THEN self.default_level ELSE found[1].level
  IN to_level_filter(level) <= limit

RECURSIVE iter_max(_)
iter_max(levels) ==
  IF levels = <<>> THEN <<>>
  ELSE LET rest == iter_max(SubSeq(levels, 1, Len(levels) - 1))
           x == levels[Len(levels)]
       IN IF rest = <<>> THEN <<x>>
          ELSE IF x >= rest[1] THEN <<x>> ELSE rest

\* variant of max_level that looks at the default level only
max_level_default_only(self) == self.default_level

\* variant of max_level that forgets the default level when rules exist
max_level_of_rules(self) ==
  LET max == iter_max([i \in 1..Len(self.module_levels) |-> self.module_levels[i].level])
  IN IF max = <<>> THEN self.default_level ELSE max[1]

max_level(self) ==
  LET max == iter_max([i \in 1..Len(self.module_levels) |-> self.module_levels[i].level])
  IN IF max = <<>> THEN self.default_level
     ELSE IF max[1] >= self.default_level THEN max[1] ELSE self.default_level

(* ---------------------------------------------------------------------- *)
(* Inputs                                                                   *)
(* ---------------------------------------------------------------------- *)
Prefixes == { <<>>, <<"a">>, <<"b">>, <<"a","b">> }
Targets == { <<>>, <<"a">>, <<"a","b">>, <<"b","a">> }
ModuleLevelInputs == {Off, Info}
Rules == [name : Prefixes, level : ModuleLevelInputs]
MapKeys == { <<>>, <<"a","b">> }
WithLevelInputs == {Off, Warn, Debug}
InitRules == [name : { <<"a">> }, level : {Error, Info}]
\* log records: target, level, module_path (an Option) and args
Message == <<"h","i">>
Records ==
  { [target |-> <<"a">>, level |-> l, module_path |-> << <<"m">> >>, args |-> Message] :
      l \in Levels }
  \cup { [target |-> <<>>, level |-> Error, module_path |-> << <<"m">> >>, args |-> Message] }
\* what a log call finds around it: std::thread::current().name(), whether
\* colored colorizes, whether the local UTC offset can be determined, and
\* whether the write to the stream succeeds
Surroundings ==
  { [thread_name |-> << <<"t">> >>, should_colorize |-> TRUE, local_offset_ok |-> TRUE, write_ok |-> TRUE],
    [thread_name |-> <<>>, should_colorize |-> FALSE, local_offset_ok |-> TRUE, write_ok |-> TRUE],
    [thread_name |-> << <<"t">> >>, should_colorize |-> TRUE, local_offset_ok |-> FALSE, write_ok |-> TRUE],
    [thread_name |-> << <<"t">> >>, should_colorize |-> TRUE, local_offset_ok |-> TRUE, write_ok |-> FALSE] }
UtcOffsets == { "+01:00" }
Formats == { "[hour]:[minute]:[second]" }
\* values of RUST_LOG; the empty sequence is the unset variable
EnvValues ==
  { <<>>,
    << <<"I","n","f","o">> >>,
    << <<"o","f","f">> >>,
    << <<"E","R","R","O","R">> >>,
    << <<"w","a","r","n","i","n","g">> >> }

(* ---------------------------------------------------------------------- *)
(* State                                                                    *)
(* ---------------------------------------------------------------------- *)
\* the threads of the host application that call the installed logger: one
\* spawned with a name and one spawned without
Threads == {"t", "unnamed"}
\* the records the threads log
ThreadRecords == {r \in Records : r.target = <<"a">> /\ r.level \in {Error, Info}}
\* a thread that has made no call yet
NoCall == [pc |-> "idle", op |-> "none", record |-> <<>>, returned |-> <<>>]

VARIABLES
  logger,           \* the SimpleLogger value under construction
  live,             \* FALSE once init(self) has consumed the builder
  env_reads,        \* what the env() calls on the builder read from RUST_LOG, in order
  last_with_level,  \* the latest with_level call on the builder: its level, and
                    \* the number of env() calls made before it
  ret,              \* what the latest enabled() call was asked and returned
  RUST_LOG,         \* the environment variable, None when unset
  LOGGER,           \* log's global logger slot, None until set_boxed_logger succeeds
  MAX_LEVEL_FILTER, \* log's global maximum level
  inits,            \* the Results returned by the init calls so far
  stdout,           \* lines written to standard output
  stderr,           \* lines written to standard error
  panic,            \* message of the panic that unwound the latest log call, if any
  feature_stderr,   \* whether the crate was built with the "stderr" feature
  thread_calls             \* per thread, its call on the installed logger: where it
                    \* stands, the operation, the record, and what enabled returned

vars == << logger, live, env_reads, last_with_level, ret, RUST_LOG, LOGGER,
           MAX_LEVEL_FILTER, inits, stdout, stderr, panic, feature_stderr,
           thread_calls >>

builder_vars == << logger, live, env_reads, last_with_level >>
global_vars == << LOGGER, MAX_LEVEL_FILTER, inits >>
output_vars == << stdout, stderr, panic, feature_stderr, thread_calls >>

SimpleLogger_new ==
  [ default_level |-> Trace,
    module_levels |-> <<>>,
    threads |-> FALSE,
    timestamps |-> <<"Utc">>,
    timestamps_format |-> <<>>,
    colors |-> TRUE ]

Init ==
  /\ logger = SimpleLogger_new
  /\ live = TRUE
  /\ env_reads = <<>>
  /\ last_with_level = <<>>
  /\ ret = <<>>
  /\ RUST_LOG = <<>>
  /\ LOGGER = <<>>
  /\ MAX_LEVEL_FILTER = Off
  /\ inits = <<>>
  /\ stdout = <<>>
  /\ stderr = <<>>
  /\ panic = <<>>
  /\ feature_stderr = FALSE
  /\ thread_calls = [t \in Threads |-> NoCall]

(* ---------------------------------------------------------------------- *)
(* Builder methods                                                          *)
(* ---------------------------------------------------------------------- *)
new ==
  /\ logger' = SimpleLogger_new
  /\ live' = TRUE
  /\ env_reads' = <<>>
  /\ last_with_level' = <<>>
  /\ ret' = <<>>
  /\ UNCHANGED << RUST_LOG, global_vars, output_vars >>

\* variant of with_level that yields to a value env() has read
with_level_unless_env(level) ==
  /\ live
  /\ logger' = [logger EXCEPT !.default_level =
                  IF \E i \in 1..Len(env_reads) : env_reads[i] # <<>> THEN @ ELSE level]
  /\ last_with_level' = << [level |-> level, after |-> Len(env_reads)] >>
  /\ ret' = <<>>
  /\ UNCHANGED << live, env_reads, RUST_LOG, global_vars, output_vars >>

with_level(level) ==
  /\ live
  /\ logger' = [logger EXCEPT !.default_level = level]
  /\ last_with_level' = << [level |-> level, after |-> Len(env_reads)] >>
  /\ ret' = <<>>
  /\ UNCHANGED << live, env_reads, RUST_LOG, global_vars, output_vars >>

with_module_level(target, level) ==
  /\ live
  /\ Len(logger.module_levels) < MaxRules
  /\ logger' = [logger EXCEPT !.module_levels =
                  sort_by_key(Append(@, [name |-> target, level |-> level]))]
  /\ ret' = <<>>
  /\ UNCHANGED << live, env_reads, last_with_level, RUST_LOG, global_vars, output_vars >>

\* a HashMap<String, LevelFilter> is a sequence of rules with distinct names,
\* in the order into_iter() happens to yield them
HashMaps ==
  { s \in UNION { [1..n -> [name : MapKeys, level : ModuleLevelInputs]] :
                    n \in 0..Cardinality(MapKeys) } :
      \A i, j \in 1..Len(s) : s[i].name = s[j].name => i = j }

with_target_levels(target_levels) ==
  /\ live
  /\ logger' = [logger EXCEPT !.module_levels = sort_by_key(target_levels)]
  /\ ret' = <<>>
  /\ UNCHANGED << live, env_reads, last_with_level, RUST_LOG, global_vars, output_vars >>

\* logger.enabled(&metadata) on the value under construction
call_enabled(target, level) ==
  /\ live
  /\ ret' = << [target |-> target, level |-> level,
                result |-> enabled(logger, target, level)] >>
  /\ UNCHANGED << builder_vars, RUST_LOG, global_vars, output_vars >>

\* std::env::var("RUST_LOG").ok().as_deref().map(from_str).and_then(Result::ok)
parse_env(value) == IF value = <<>> THEN <<>> ELSE from_str(value[1])

env ==
  /\ live
  /\ Len(env_reads) < MaxCalls
  /\ logger' = [logger EXCEPT !.default_level =
                  IF parse_env(RUST_LOG) = <<>> THEN @ ELSE parse_env(RUST_LOG)[1]]
  /\ env_reads' = Append(env_reads, RUST_LOG)
  /\ ret' = <<>>
  /\ UNCHANGED << live, last_with_level, RUST_LOG, global_vars, output_vars >>

\* the process environment changes between calls
set_var(value) ==
  /\ RUST_LOG # value
  /\ RUST_LOG' = value
  /\ UNCHANGED << builder_vars, ret, global_vars, output_vars >>

with_threads(threads) ==
  /\ live
  /\ logger' = [logger EXCEPT !.threads = threads]
  /\ ret' = <<>>
  /\ UNCHANGED << live, env_reads, last_with_level, RUST_LOG, global_vars, output_vars >>

with_timestamps(timestamps) ==
  /\ live
  /\ logger' = [logger EXCEPT !.timestamps = IF timestamps THEN <<"Local">> ELSE <<"None">>]
  /\ ret' = <<>>
  /\ UNCHANGED << live, env_reads, last_with_level, RUST_LOG, global_vars, output_vars >>

with_timestamp_format(format) ==
  /\ live
  /\ logger' = [logger EXCEPT !.timestamps_format = <<format>>]
  /\ ret' = <<>>
  /\ UNCHANGED << live, env_reads, last_with_level, RUST_LOG, global_vars, output_vars >>

without_timestamps ==
  /\ live
  /\ logger' = [logger EXCEPT !.timestamps = <<"None">>]
  /\ ret' = <<>>
  /\ UNCHANGED << live, env_reads, last_with_level, RUST_LOG, global_vars, output_vars >>

with_local_timestamps ==
  /\ live
  /\ logger' = [logger EXCEPT !.timestamps = <<"Local">>]
  /\ ret' = <<>>
  /\ UNCHANGED << live, env_reads, last_with_level, RUST_LOG, global_vars, output_vars >>

with_utc_timestamps ==
  /\ live
  /\ logger' = [logger EXCEPT !.timestamps = <<"Utc">>]
  /\ ret' = <<>>
  /\ UNCHANGED << live, env_reads, last_with_level, RUST_LOG, global_vars, output_vars >>

with_utc_offset(offset) ==
  /\ live
  /\ logger' = [logger EXCEPT !.timestamps = <<"UtcOffset", offset>>]
  /\ ret' = <<>>
  /\ UNCHANGED << live, env_reads, last_with_level, RUST_LOG, global_vars, output_vars >>

with_colors(colors) ==
  /\ live
  /\ logger' = [logger EXCEPT !.colors = colors]
  /\ ret' = <<>>
  /\ UNCHANGED << live, env_reads, last_with_level, RUST_LOG, global_vars, output_vars >>

(* ---------------------------------------------------------------------- *)
(* init: log::set_max_level, then log::set_boxed_logger                     *)
(* ---------------------------------------------------------------------- *)
\* variant of init that replaces a logger already installed
init_always_installs ==
  /\ live
  /\ Len(inits) < MaxInits
  /\ MAX_LEVEL_FILTER' = max_level(logger)
  /\ LOGGER' = <<logger>>
  /\ inits' = Append(inits, "Ok")
  /\ live' = FALSE
  /\ logger' = SimpleLogger_new
  /\ env_reads' = <<>>
  /\ last_with_level' = <<>>
  /\ ret' = <<>>
  /\ UNCHANGED << RUST_LOG, output_vars >>

init ==
  /\ live
  /\ Len(inits) < MaxInits
  /\ MAX_LEVEL_FILTER' = max_level(logger)
  /\ IF LOGGER = <<>>
       THEN /\ LOGGER' = <<logger>>
            /\ inits' = Append(inits, "Ok")
       ELSE /\ LOGGER' = LOGGER
            /\ inits' = Append(inits, "SetLoggerError")
  \* self is moved into the call: the builder is gone
  /\ live' = FALSE
  /\ logger' = SimpleLogger_new
  /\ env_reads' = <<>>
  /\ last_with_level' = <<>>
  /\ ret' = <<>>
  /\ UNCHANGED << RUST_LOG, output_vars >>

(* ---------------------------------------------------------------------- *)
(* log: the line and its write                                              *)
(* ---------------------------------------------------------------------- *)
Spaces(n) == [i \in 1..n |-> " "]

\* format!("{:<5}", s): s padded with spaces on the right up to the width
\* and never cut
pad_left_aligned(s, width) ==
  IF Len(s) >= width THEN s ELSE s \o Spaces(width - Len(s))

\* Level's Display: the upper-case name
level_to_string(level) == LOG_LEVEL_NAMES[level + 1]

\* colored: the escape sequence of the foreground colour, None for normal()
Fgcolor(level) ==
  CASE level = Error -> <<"\\x1B[31m">>
    [] level = Warn -> <<"\\x1B[33m">>
    [] level = Info -> <<"\\x1B[36m">>
    [] level = Debug -> <<"\\x1B[35m">>
    [] level = Trace -> <<>>

\* ColoredString's Display: the text between its colour and the reset
\* sequence when it has a colour and colored decides to colorize
colored_to_string(text, fgcolor, should_colorize) ==
  IF fgcolor = <<>> \/ ~should_colorize THEN text
  ELSE fgcolor \o text \o <<"\\x1B[0m">>

level_string(self, level, should_colorize) ==
  IF self.colors
    THEN colored_to_string(pad_left_aligned(level_to_string(level), 5),
                           Fgcolor(level), should_colorize)
    ELSE pad_left_aligned(level_to_string(level), 5)

record_target(record) ==
  IF record.target # <<>> THEN record.target
  ELSE IF record.module_path = <<>> THEN <<>> ELSE record.module_path[1]

thread_string(self, thread_name) ==
  IF self.threads
    THEN <<"@">> \o (IF thread_name = <<>> THEN <<"?">> ELSE thread_name[1])
    ELSE <<>>

\* one reading of the clock, rendered by the format in use; TIMESTAMP_FORMAT_UTC
\* ends in Z, TIMESTAMP_FORMAT_OFFSET in the offset
format_time(timestamps, timestamps_format) ==
  IF timestamps_format # <<>>
    THEN CASE timestamps[1] = "Local" -> "05:04:05"
           [] timestamps[1] = "Utc" -> "03:04:05"
           [] timestamps[1] = "UtcOffset" -> "04:04:05"
    ELSE CASE timestamps[1] = "Local" -> "2024-01-02T05:04:05.678+02:00"
           [] timestamps[1] = "Utc" -> "2024-01-02T03:04:05.678Z"
           [] timestamps[1] = "UtcOffset" -> "2024-01-02T04:04:05.678+01:00"

timestamp_string(self) ==
  IF self.timestamps[1] = "None" THEN <<>>
  ELSE << format_time(self.timestamps, self.timestamps_format), " " >>

\* variant of format_message with thread and target exchanged
format_message_thread_first(timestamp, level, target, thread, args) ==
  timestamp \o level \o <<" ", "[">> \o thread \o target \o <<"]", " ">> \o args

\* format!("{}{} [{}{}] {}", timestamp, level_string, target, thread, record.args())
format_message(timestamp, level, target, thread, args) ==
  timestamp \o level \o <<" ", "[">> \o target \o thread \o <<"]", " ">> \o args

\* println! or eprintln!: the message and a newline, or a panic when the
\* write fails
print_line(message, write_ok) ==
  IF write_ok
    THEN /\ panic' = <<>>
         /\ IF feature_stderr
              THEN stderr' = Append(stderr, message \o <<"\n">>) /\ UNCHANGED stdout
              ELSE stdout' = Append(stdout, message \o <<"\n">>) /\ UNCHANGED stderr
    ELSE /\ panic' = << IF feature_stderr THEN "failed printing to stderr"
                                          ELSE "failed printing to stdout" >>
         /\ UNCHANGED << stdout, stderr >>

\* Log::log on the installed logger
log(record, thread_name, should_colorize, local_offset_ok, write_ok) ==
  /\ LOGGER # <<>>
  /\ Len(stdout) + Len(stderr) < MaxLines
  /\ LET self == LOGGER[1]
     IN IF ~enabled(self, record.target, record.level)
          THEN panic' = <<>> /\ UNCHANGED << stdout, stderr >>
        ELSE IF self.timestamps[1] = "Local" /\ ~local_offset_ok
          THEN /\ panic' = <<"Could not determine the UTC offset on this system.">>
               /\ UNCHANGED << stdout, stderr >>
        ELSE print_line(format_message(timestamp_string(self),
                                       level_string(self, record.level, should_colorize),
                                       record_target(record),
                                       thread_string(self, thread_name),
                                       record.args),
                        write_ok)
  /\ UNCHANGED << builder_vars, ret, RUST_LOG, global_vars, feature_stderr, thread_calls >>

(* ---------------------------------------------------------------------- *)
(* The rule table on its own: a builder holding any default level takes     *)
(* rules and answers enabled()                                              *)
(* ---------------------------------------------------------------------- *)
InitFilter ==
  /\ \E level \in LevelFilters :
        /\ logger = [SimpleLogger_new EXCEPT !.default_level = level]
        /\ last_with_level = << [level |-> level, after |-> 0] >>
  /\ live = TRUE
  /\ env_reads = <<>>
  /\ ret = <<>>
  /\ RUST_LOG = <<>>
  /\ LOGGER = <<>>
  /\ MAX_LEVEL_FILTER = Off
  /\ inits = <<>>
  /\ stdout = <<>>
  /\ stderr = <<>>
  /\ panic = <<>>
  /\ feature_stderr = FALSE
  /\ thread_calls = [t \in Threads |-> NoCall]

NextFilter ==
  \/ \E r \in Rules : with_module_level(r.name, r.level)
  \/ \E t \in Targets, l \in Levels : call_enabled(t, l)

SpecFilter == InitFilter /\ [][NextFilter]_vars

\* the same, with the deprecated with_target_levels as well
NextTable ==
  \/ \E r \in Rules : with_module_level(r.name, r.level)
  \/ \E m \in HashMaps : with_target_levels(m)
  \/ \E t \in Targets, l \in Levels : call_enabled(t, l)

SpecTable == InitFilter /\ [][NextTable]_vars

(* ---------------------------------------------------------------------- *)
(* Properties of the rule table (SpecFilter)                                *)
(* ---------------------------------------------------------------------- *)
Matching(module_levels, target) ==
  {i \in 1..Len(module_levels) : starts_with(target, module_levels[i].name)}

LongestMatching(module_levels, target) ==
  {i \in Matching(module_levels, target) :
     \A j \in Matching(module_levels, target) :
        Len(module_levels[j].name) <= Len(module_levels[i].name)}

\* the level the longest matching prefix asks for (of the rule set first when
\* the same prefix was set more than once), else the default level
LongestPrefixLevel(self, target) ==
  LET longest == LongestMatching(self.module_levels, target)
  IN IF longest = {} THEN self.default_level
     ELSE self.module_levels[CHOOSE i \in longest : \A j \in longest : i <= j].level

\* C1: enabled(target, level) is true iff level <= L, where L is the level of
\* the rule with the longest prefix that is a literal prefix of target, or the
\* default level when no rule's prefix is a prefix of target.
C1_EnabledIffLongestPrefix ==
  \A t \in Targets, l \in Levels :
     enabled(logger, t, l) <=> (l <= LongestPrefixLevel(logger, t))

CallOrders(n) ==
  {p \in [1..n -> 1..n] : \A i, j \in 1..n : p[i] = p[j] => i = j}

\* the table after SimpleLogger::new().with_module_level(..) is called once
\* for each rule of calls, in that order
RECURSIVE Build(_)
Build(calls) ==
  IF calls = <<>> THEN <<>>
  ELSE sort_by_key(Append(Build(SubSeq(calls, 1, Len(calls) - 1)), calls[Len(calls)]))

\* C2: whatever the order of the with_module_level calls, of two rules whose
\* prefixes have different lengths and are both prefixes of a target the one
\* with the longer prefix decides enabled(target, level).
C2_LongerPrefixDecides ==
  LET rules == logger.module_levels
      n == Len(rules)
  IN \A p \in CallOrders(n) :
       LET table == Build([i \in 1..n |-> rules[p[i]]])
           self == [logger EXCEPT !.module_levels = table]
       IN \A t \in Targets : \A i, j \in Matching(rules, t) :
            Len(rules[i].name) < Len(rules[j].name) =>
              /\ Len(find(table, t)[1].name) >= Len(rules[j].name)
              /\ (\A k \in LongestMatching(rules, t) : rules[k].level = rules[j].level)
                   => \A l \in Levels : enabled(self, t, l) <=> (l <= rules[j].level)

\* C7: for a fixed configuration and target, and severities s1 <= s2,
\* enabled(target, s2) implies enabled(target, s1).
C7_EnabledMonotone ==
  \A t \in Targets, s1 \in Levels, s2 \in Levels :
     (s1 <= s2 /\ enabled(logger, t, s2)) => enabled(logger, t, s1)

\* an enabled() call answered true for a level that a rule, and not the
\* default, admits while the same rule turns a higher level away
C7_Witness ==
  /\ ret # <<>>
  /\ ret[1].result
  /\ ret[1].level > Error
  /\ find(logger.module_levels, ret[1].target) # <<>>
  /\ enabled(logger, ret[1].target, Error)
  /\ ~enabled(logger, ret[1].target, Trace)

HasEmptyPrefixRule(self) ==
  \E i \in 1..Len(self.module_levels) : self.module_levels[i].name = <<>>

\* C8 as stated: an event with the empty target matches no non-empty prefix
\* rule and its verdict is always the comparison against the default level.
C8_EmptyTargetAlwaysDefault ==
  /\ \A i \in Matching(logger.module_levels, <<>>) : logger.module_levels[i].name = <<>>
  /\ \A l \in Levels : enabled(logger, <<>>, l) <=> (l <= logger.default_level)

\* C8 amended: an event with the empty target matches no non-empty prefix
\* rule; its verdict is the comparison against the default level unless the
\* table holds a rule with the empty prefix, and then against the level of
\* the first such rule.
C8_EmptyTargetDefaultOrEmptyRule ==
  /\ \A i \in Matching(logger.module_levels, <<>>) : logger.module_levels[i].name = <<>>
  /\ \A l \in Levels :
       enabled(logger, <<>>, l) <=>
         IF HasEmptyPrefixRule(logger)
           THEN l <= logger.module_levels[
                       CHOOSE i \in 1..Len(logger.module_levels) :
                          /\ logger.module_levels[i].name = <<>>
                          /\ \A j \in 1..(i - 1) : logger.module_levels[j].name # <<>>].level
           ELSE l <= logger.default_level

\* enabled() was asked about the empty target while the table held a
\* non-empty prefix rule and no empty one, and answered from the default
C8_Witness ==
  /\ ret # <<>>
  /\ ret[1].target = <<>>
  /\ logger.module_levels # <<>>
  /\ ~HasEmptyPrefixRule(logger)
  /\ logger.module_levels[1].level # logger.default_level
  /\ ret[1].result = (ret[1].level <= logger.default_level)
  /\ ret[1].result # (ret[1].level <= logger.module_levels[1].level)

(* ---------------------------------------------------------------------- *)
(* Builders and init attempts (SpecInit)                                    *)
(* ---------------------------------------------------------------------- *)
NextInit ==
  \/ new
  \/ \E l \in WithLevelInputs : with_level(l)
  \/ \E r \in InitRules : with_module_level(r.name, r.level)
  \/ init

SpecInit == Init /\ [][NextInit]_vars

\* C3: in any sequence of init attempts exactly the first succeeds, each
\* later one returns SetLoggerError, and the engine the first one installed
\* stays in the logger slot unchanged.
C3_OnlyFirstInitSucceeds ==
  /\ [](\A i \in 1..Len(inits) : (inits[i] = "Ok") <=> (i = 1))
  /\ [](\A i \in 1..Len(inits) : (inits[i] = "SetLoggerError") <=> (i > 1))
  /\ []((LOGGER = <<>>) <=> (inits = <<>>))
  /\ [][ /\ (LOGGER # <<>> => LOGGER' = LOGGER)
         /\ ((LOGGER = <<>> /\ inits' # inits) => LOGGER' = <<logger>>) ]_vars

\* three init attempts were made, and a failed one came from a builder whose
\* configuration differs from the installed one
C3_Witness ==
  /\ Len(inits) = 3
  /\ LOGGER # <<>>
  /\ LOGGER[1].module_levels # <<>>
  /\ MAX_LEVEL_FILTER # max_level(LOGGER[1])

SetMax(S) == CHOOSE x \in S : \A y \in S : y <= x

LevelsOf(self) ==
  {self.default_level} \cup
  {self.module_levels[i].level : i \in 1..Len(self.module_levels)}

\* C4: max_level() is the maximum over the default level and the levels of
\* all rules (Trace for SimpleLogger::new()), and a successful init installs
\* exactly this value as the global maximum level.
C4_MaxLevelInstalled ==
  /\ [](max_level(logger) = SetMax(LevelsOf(logger)))
  /\ [](logger = SimpleLogger_new => max_level(logger) = Trace)
  /\ [][ (inits' # inits /\ inits'[Len(inits')] = "Ok")
           => MAX_LEVEL_FILTER' = SetMax(LevelsOf(logger)) ]_vars

\* the one successful init installed a table whose rules all ask for less
\* than the default level, so the ceiling is the default level
C4_Witness ==
  /\ inits = <<"Ok">>
  /\ LOGGER[1].module_levels # <<>>
  /\ \A i \in 1..Len(LOGGER[1].module_levels) :
        LOGGER[1].module_levels[i].level < LOGGER[1].default_level
  /\ LOGGER[1].default_level < Trace
  /\ MAX_LEVEL_FILTER = LOGGER[1].default_level

(* ---------------------------------------------------------------------- *)
(* The default level and RUST_LOG (SpecEnv)                                 *)
(* ---------------------------------------------------------------------- *)
NextEnv ==
  \/ \E v \in EnvValues : set_var(v)
  \/ \E l \in WithLevelInputs : with_level(l)
  \/ env

SpecEnv == Init /\ [][NextEnv]_vars

Lowered(s) == [i \in 1..Len(s) |-> to_ascii_lowercase(s[i])]

FiveLevelNames ==
  { <<"e","r","r","o","r">>, <<"w","a","r","n">>, <<"i","n","f","o">>,
    <<"d","e","b","u","g">>, <<"t","r","a","c","e">> }

SixLevelNames == FiveLevelNames \cup { <<"o","f","f">> }

NamedLevel(name) ==
  CASE name = <<"o","f","f">> -> Off
    [] name = <<"e","r","r","o","r">> -> Error
    [] name = <<"w","a","r","n">> -> Warn
    [] name = <<"i","n","f","o">> -> Info
    [] name = <<"d","e","b","u","g">> -> Debug
    [] name = <<"t","r","a","c","e">> -> Trace

\* the default level an env() call leaves behind when names are the
\* recognised level names
AfterEnv(names) ==
  IF RUST_LOG # <<>> /\ Lowered(RUST_LOG[1]) \in names
    THEN NamedLevel(Lowered(RUST_LOG[1]))
    ELSE logger.default_level

IsEnvStep == env_reads' = Append(env_reads, RUST_LOG)

\* C5 as stated: after env() the default level is the level RUST_LOG names
\* when its value is one of the five level names, whatever the case; for any
\* other value, and when the variable is unset, it is the level held before.
C5_EnvFiveNames ==
  [][IsEnvStep => logger'.default_level = AfterEnv(FiveLevelNames)]_vars

\* C5 amended: the same with six recognised names: off, error, warn, info,
\* debug and trace.
C5_EnvSixNames ==
  [][IsEnvStep => logger'.default_level = AfterEnv(SixLevelNames)]_vars

\* env() read "off" while the default level was another one and turned
\* logging off
C5_Witness ==
  /\ env_reads # <<>>
  /\ env_reads[Len(env_reads)] = << <<"o","f","f">> >>
  /\ last_with_level # <<>>
  /\ last_with_level[1].level # Off
  /\ last_with_level[1].after = Len(env_reads) - 1
  /\ logger.default_level = Off

\* C6: a with_level call overrides whatever an earlier env call loaded; the
\* final default level is the level of the last env call after the last
\* with_level whose RUST_LOG parsed, and without such a call the level of
\* the last with_level (Trace when there was none).
C6_LastWithLevelThenEnv ==
  LET from == IF last_with_level = <<>> THEN 0 ELSE last_with_level[1].after
      base == IF last_with_level = <<>> THEN Trace ELSE last_with_level[1].level
      later == {i \in (from + 1)..Len(env_reads) : parse_env(env_reads[i]) # <<>>}
  IN logger.default_level =
       IF later = {} THEN base
       ELSE parse_env(env_reads[SetMax(later)])[1]

\* env loaded a level, a later with_level set another one, and an env call
\* after that found RUST_LOG unparseable: the with_level value stands
C6_Witness ==
  /\ Len(env_reads) = 2
  /\ parse_env(env_reads[1]) # <<>>
  /\ parse_env(env_reads[2]) = <<>>
  /\ last_with_level # <<>>
  /\ last_with_level[1].after = 1
  /\ last_with_level[1].level # parse_env(env_reads[1])[1]
  /\ logger.default_level = last_with_level[1].level

(* ---------------------------------------------------------------------- *)
(* Formatting and writing (SpecLog)                                         *)
(* ---------------------------------------------------------------------- *)
InitLog ==
  /\ logger = SimpleLogger_new
  /\ live = TRUE
  /\ env_reads = <<>>
  /\ last_with_level = <<>>
  /\ ret = <<>>
  /\ RUST_LOG = <<>>
  /\ LOGGER = <<>>
  /\ MAX_LEVEL_FILTER = Off
  /\ inits = <<>>
  /\ stdout = <<>>
  /\ stderr = <<>>
  /\ panic = <<>>
  /\ feature_stderr \in BOOLEAN
  /\ thread_calls = [t \in Threads |-> NoCall]

NextLog ==
  \/ \E b \in BOOLEAN : with_threads(b)
  \/ \E b \in BOOLEAN : with_colors(b)
  \/ \E b \in BOOLEAN : with_timestamps(b)
  \/ \E f \in Formats : with_timestamp_format(f)
  \/ without_timestamps
  \/ with_local_timestamps
  \/ with_utc_timestamps
  \/ \E o \in UtcOffsets : with_utc_offset(o)
  \/ \E l \in WithLevelInputs : with_level(l)
  \/ init
  \/ \E r \in Records, s \in Surroundings :
        log(r, s.thread_name, s.should_colorize, s.local_offset_ok, s.write_ok)

SpecLog == InitLog /\ [][NextLog]_vars

\* C9: when the write of a log line fails, log() ignores the failure and
\* returns normally: a write error never panics.
C9_WriteFailureIgnored ==
  /\ panic # <<"failed printing to stdout">>
  /\ panic # <<"failed printing to stderr">>

TimestampTexts ==
  { "2024-01-02T05:04:05.678+02:00", "2024-01-02T03:04:05.678Z",
    "2024-01-02T04:04:05.678+01:00", "05:04:05", "03:04:05", "04:04:05" }

\* the five level names, each in a field of five characters
LevelFields ==
  { <<"E","R","R","O","R">>, <<"W","A","R","N"," ">>, <<"I","N","F","O"," ">>,
    <<"D","E","B","U","G">>, <<"T","R","A","C","E">> }

ColorCodes == { "\\x1B[31m", "\\x1B[33m", "\\x1B[36m", "\\x1B[35m" }

TargetSegments == { <<>>, <<"a">>, <<"m">> }

ThreadSegments(self) ==
  IF self.threads THEN { <<"@", "?">>, <<"@", "t">> } ELSE { <<>> }

Written == stdout \o stderr

\* the layout of one line written by the logger self
LineLayout(line, self) ==
  LET a == IF self.timestamps[1] = "None" THEN 0 ELSE 2
      coloured == self.colors /\ Len(line) > a /\ line[a + 1] \in ColorCodes
      b == IF coloured THEN a + 1 ELSE a
      d == IF coloured THEN b + 6 ELSE b + 5
  IN /\ Len(line) > d
     /\ a = 2 => (line[1] \in TimestampTexts /\ line[2] = " ")
     /\ a = 0 => line[1] \notin TimestampTexts
     /\ SubSeq(line, b + 1, b + 5) \in LevelFields
     /\ coloured => line[d] = "\\x1B[0m"
     /\ \E tg \in TargetSegments, th \in ThreadSegments(self) :
           SubSeq(line, d + 1, Len(line)) =
              <<" ", "[">> \o tg \o th \o <<"]", " ">> \o Message \o <<"\n">>

\* C10: every line written is, in this order, the timestamp and a space
\* (absent when timestamps are off), the level name in a field of exactly 5
\* characters (inside its colour codes when colored), a space, the target
\* and the @thread segment (absent when thread annotation is off) in one
\* pair of brackets, a space, and the message last.
C10_LineLayout ==
  /\ \A f \in LevelFields : Len(f) = 5
  /\ \A i \in 1..Len(Written) : LineLayout(Written[i], LOGGER[1])

\* a line with every segment: timestamp, coloured WARN padded to five
\* characters, target, thread name and message
C10_Witness ==
  \E i \in 1..Len(stdout) :
     stdout[i] = << "2024-01-02T03:04:05.678Z", " ",
                    "\\x1B[33m", "W", "A", "R", "N", " ", "\\x1B[0m", " ",
                    "[", "a", "@", "t", "]", " ", "h", "i", "\n" >>

(* ---------------------------------------------------------------------- *)
(* Order of the rule table (SpecTable, SpecFilter)                          *)
(* ---------------------------------------------------------------------- *)
\* C12: after any sequence of with_module_level and with_target_levels
\* calls, with prefixes of any length including the empty one, the table is
\* in order of non-increasing prefix length, so the first rule whose prefix
\* matches a target is the longest matching one.
C12_TableSortedByLength ==
  /\ \A i, j \in 1..Len(logger.module_levels) :
        i < j => Len(logger.module_levels[i].name) >= Len(logger.module_levels[j].name)
  /\ \A t \in Targets :
        find(logger.module_levels, t) # <<>> =>
          \A k \in Matching(logger.module_levels, t) :
             Len(logger.module_levels[k].name) <= Len(find(logger.module_levels, t)[1].name)

\* v is w with one element taken out at position k
IsInsertionAt(w, v, k) ==
  /\ Len(w) = Len(v) + 1
  /\ k \in 1..Len(w)
  /\ \A i \in 1..(k - 1) : w[i] = v[i]
  /\ \A i \in k..Len(v) : w[i + 1] = v[i]

\* C16: with_module_level always appends and never replaces: every rule of
\* the table is kept in its order, the new rule comes behind the rules with
\* a prefix of its length, and when its prefix is in the table already the
\* rule set first goes on deciding enabled for the targets it decided.
C16_AppendsStable ==
  [][ \A r \in Rules :
        with_module_level(r.name, r.level) =>
          LET old == logger.module_levels
              table == logger'.module_levels
          IN /\ \E k \in 1..Len(table) :
                  /\ IsInsertionAt(table, old, k)
                  /\ table[k] = r
                  /\ \A i \in 1..Len(old) :
                        Len(old[i].name) = Len(r.name) => i < k
             /\ (\E i \in 1..Len(old) : old[i].name = r.name) =>
                  \A t \in Targets :
                     (find(old, t) # <<>> /\ find(old, t)[1].name = r.name)
                        => find(table, t) = find(old, t) ]_vars

\* the same prefix was set twice with different levels, both rules are in
\* the table, and enabled() answered for that prefix as the first one says
C16_Witness ==
  /\ Len(logger.module_levels) = 2
  /\ logger.module_levels[1].name = <<"a">>
  /\ logger.module_levels[2].name = <<"a">>
  /\ logger.module_levels[1].level = Off
  /\ logger.module_levels[2].level = Info
  /\ ret # <<>>
  /\ ret[1].target = <<"a">>
  /\ ret[1].level = Info
  /\ ret[1].result = FALSE

(* ---------------------------------------------------------------------- *)
(* The global maximum level (SpecInit)                                      *)
(* ---------------------------------------------------------------------- *)
\* C14: an init call that fails leaves the global maximum level unchanged:
\* after any sequence of init attempts it equals max_level() of the engine
\* that was installed.
C14_CeilingOfInstalledEngine ==
  /\ [](LOGGER # <<>> => MAX_LEVEL_FILTER = max_level(LOGGER[1]))
  /\ [][ (inits' # inits /\ inits'[Len(inits')] = "SetLoggerError")
           => MAX_LEVEL_FILTER' = MAX_LEVEL_FILTER ]_vars

\* C15: for every configuration the builder reaches and every target and
\* level, enabled(target, level) implies level <= max_level(), so the maximum
\* level a successful init installs admits every event its table enables.
C15_EnabledWithinMaxLevel ==
  /\ [](\A t \in Targets, l \in Levels :
           enabled(logger, t, l) => to_level_filter(l) <= max_level(logger))
  /\ [][ (inits' # inits /\ inits'[Len(inits')] = "Ok") =>
           \A t \in Targets, l \in Levels :
              enabled(LOGGER'[1], t, l) => to_level_filter(l) <= MAX_LEVEL_FILTER' ]_vars

\* an engine was installed whose rule enables Info for target "a" under a
\* lower default level, and the maximum level installed with it is Info
C15_Witness ==
  /\ inits = <<"Ok">>
  /\ LOGGER[1].default_level < Info
  /\ enabled(LOGGER[1], <<"a">>, Info)
  /\ ~enabled(LOGGER[1], <<"b","a">>, Info)
  /\ MAX_LEVEL_FILTER = Info

(* ---------------------------------------------------------------------- *)
(* Lines written per log() call (SpecLog)                                   *)
(* ---------------------------------------------------------------------- *)
\* C13: every log(record) call writes exactly one line, behind the lines
\* written before it, when enabled(record) is true, and writes nothing when
\* it is false: the lines are in call order, one per enabled event.
C13_OneLinePerEnabledCall ==
  [][ \A r \in Records, s \in Surroundings :
        log(r, s.thread_name, s.should_colorize, s.local_offset_ok, s.write_ok) =>
          IF enabled(LOGGER[1], r.target, r.level)
            THEN /\ Len(Written') = Len(Written) + 1
                 /\ SubSeq(Written', 1, Len(Written)) = Written
            ELSE Written' = Written ]_vars

(* ---------------------------------------------------------------------- *)
(* Threads calling the installed logger (SpecThreads)                       *)
(* ---------------------------------------------------------------------- *)
\* std::thread::current().name()
current_name(t) == IF t = "unnamed" THEN <<>> ELSE << <<t>> >>

\* the log calls that have been made and have not yet written or returned
InFlight == {u \in Threads : thread_calls[u].op = "log" /\ thread_calls[u].pc \in {"find", "default", "print"}}

\* a thread calls Log::enabled or Log::log on the logger in the global slot
thread_call(t, op, record) ==
  /\ LOGGER # <<>>
  /\ thread_calls[t].pc = "idle"
  /\ op = "log" => Len(stdout) + Len(stderr) + Cardinality(InFlight) < MaxLines
  /\ thread_calls' = [thread_calls EXCEPT ![t] =
                 [pc |-> "find", op |-> op, record |-> <<record>>, returned |-> <<>>]]
  /\ UNCHANGED << builder_vars, ret, RUST_LOG, global_vars, stdout, stderr, panic,
                  feature_stderr >>

\* the call has its answer: enabled() returns it, log() goes on to write
\* when it is true and returns when it is false
decided(call, allowed) ==
  [call EXCEPT !.returned = << allowed >>,
               !.pc = IF call.op = "log" /\ allowed THEN "print" ELSE "idle"]

\* enabled(): the search of self.module_levels for the first matching prefix
thread_find(t) ==
  /\ thread_calls[t].pc = "find"
  /\ LET record == thread_calls[t].record[1]
         found == find(LOGGER[1].module_levels, record.target)
     IN thread_calls' = [thread_calls EXCEPT ![t] =
                    IF found = <<>> THEN [@ EXCEPT !.pc = "default"]
                    ELSE decided(@, to_level_filter(record.level) <= found[1].level)]
  /\ UNCHANGED << builder_vars, ret, RUST_LOG, global_vars, stdout, stderr, panic,
                  feature_stderr >>

\* variant of thread_default that reads the builder under construction
thread_default_of_builder(t) ==
  /\ thread_calls[t].pc = "default"
  /\ thread_calls' = [thread_calls EXCEPT ![t] =
                 decided(@, to_level_filter(thread_calls[t].record[1].level) <= logger.default_level)]
  /\ UNCHANGED << builder_vars, ret, RUST_LOG, global_vars, stdout, stderr, panic,
                  feature_stderr >>

\* enabled(): no prefix matched, unwrap_or(&self.default_level)
thread_default(t) ==
  /\ thread_calls[t].pc = "default"
  /\ thread_calls' = [thread_calls EXCEPT ![t] =
                 decided(@, to_level_filter(thread_calls[t].record[1].level) <= LOGGER[1].default_level)]
  /\ UNCHANGED << builder_vars, ret, RUST_LOG, global_vars, stdout, stderr, panic,
                  feature_stderr >>

\* log(): the body behind if self.enabled(..), which formats the message
\* from self and the calling thread and writes it under the stream's lock;
\* a panic unwinds the thread
thread_print(t, should_colorize, local_offset_ok, write_ok) ==
  /\ thread_calls[t].pc = "print"
  /\ LET self == LOGGER[1]
         record == thread_calls[t].record[1]
     IN IF self.timestamps[1] = "Local" /\ ~local_offset_ok
          THEN /\ panic' = <<"Could not determine the UTC offset on this system.">>
               /\ UNCHANGED << stdout, stderr >>
          ELSE print_line(format_message(timestamp_string(self),
                                         level_string(self, record.level, should_colorize),
                                         record_target(record),
                                         thread_string(self, current_name(t)),
                                         record.args),
                          write_ok)
  /\ thread_calls' = [thread_calls EXCEPT ![t].pc = IF panic' = <<>> THEN "idle" ELSE "panicked"]
  /\ UNCHANGED << builder_vars, ret, RUST_LOG, global_vars, feature_stderr >>

\* the builder of examples/threads.rs, with a default level and a rule
\* table set before init
InitThreads ==
  /\ \E rules \in { <<>>, << [name |-> <<"a">>, level |-> Info] >> } :
        logger = [SimpleLogger_new EXCEPT !.default_level = Warn,
                                          !.module_levels = rules,
                                          !.threads = TRUE]
  /\ live = TRUE
  /\ env_reads = <<>>
  /\ last_with_level = << [level |-> Warn, after |-> 0] >>
  /\ ret = <<>>
  /\ RUST_LOG = <<>>
  /\ LOGGER = <<>>
  /\ MAX_LEVEL_FILTER = Off
  /\ inits = <<>>
  /\ stdout = <<>>
  /\ stderr = <<>>
  /\ panic = <<>>
  /\ feature_stderr = FALSE
  /\ thread_calls = [t \in Threads |-> NoCall]

NextThreads ==
  \/ new
  \/ with_level(Off)
  \/ init
  \/ \E t \in Threads, op \in {"enabled", "log"}, record \in ThreadRecords :
        thread_call(t, op, record)
  \/ \E t \in Threads : thread_find(t)
  \/ \E t \in Threads : thread_default(t)
  \/ \E t \in Threads, s \in Surroundings :
        s.thread_name = current_name(t) /\
        thread_print(t, s.should_colorize, s.local_offset_ok, s.write_ok)

SpecThreads == InitThreads /\ [][NextThreads]_vars

\* C11: once a logger is installed, no step of any interleaving of the
\* threads' enabled() and log() calls with each other and with later builder
\* and init calls changes the installed configuration, and the answer each
\* call reaches is the one enabled() gives for its record on the installed
\* configuration, as when the call runs alone.
C11_InstalledConfigReadOnly ==
  /\ [][LOGGER # <<>> => LOGGER' = LOGGER]_vars
  /\ [](\A t \in Threads :
          thread_calls[t].returned # <<>> =>
            thread_calls[t].returned[1] =
              enabled(LOGGER[1], thread_calls[t].record[1].target,
                      thread_calls[t].record[1].level))

\* both threads are inside a call at once: one has its answer and is about
\* to write, the other is between the two reads of enabled(); a second init
\* has failed, and the builder under construction differs from the
\* installed configuration
C11_Witness ==
  /\ LOGGER # <<>>
  /\ thread_calls["t"].pc = "print" /\ thread_calls["t"].returned = <<TRUE>>
  /\ thread_calls["unnamed"].pc = "default" /\ thread_calls["unnamed"].op = "enabled"
  /\ Len(inits) >= 2
  /\ live /\ logger.default_level # LOGGER[1].default_level

====
